---- MODULE Spec2Model ----
(***************************************************************************)
(* Patrol Session Coordinator of app/routes.py: the module-level globals   *)
(* that hold the active session, the alarm flag and the connection flags,  *)
(* the Flask routes and the MQTT / Socket.IO handlers that write them.     *)
(*                                                                         *)
(* Every handler is written once, as the list of its statements            *)
(* (one global write, one publish or one emit per statement).  Spec runs   *)
(* a handler from its first statement to its end in one step; ConcSpec     *)
(* runs a request thread and the MQTT client thread one statement at a     *)
(* time.                                                                   *)
(***************************************************************************)
EXTENDS Integers, Sequences, FiniteSets, TLC

\* ------------------------------------------------------------------ bounds

\* Most entries ALARMS is let to grow to.
MaxAlarms == 2
\* Clock readings and epochs are 0..MaxTime.
MaxTime == 1

Times == 0..MaxTime
\* The ids the database gives Shift rows.
ShiftIds == {1, 2}

\* ------------------------------------------------------------ Python values

\* Python's None, and a value that is not None.
None == <<>>
Some(x) == <<x>>
Val(o) == o[1]

\* JSON values of a payload, tagged with their Python type.
Str(s) == <<"str", s>>
Num(n) == <<"num", n>>
Bool(b) == <<"bool", b>>
IsStr(v) == v[1] = "str"
IsNum(v) == v[1] = "num"

\* str.upper() on the strings the model uses.
Upper(s) ==
    CASE s = "ab12" -> "AB12"
      [] s = "cd34" -> "CD34"
      [] s = "ef56" -> "EF56"
      [] s = "card not on duty" -> "CARD NOT ON DUTY"
      [] s = "wrong checkpoint" -> "WRONG CHECKPOINT"
      [] s = "" -> ""
      [] OTHER -> s

\* datetime.fromtimestamp(t).strftime("%H:%M:%S"), as <<hours, minutes, seconds>>.
StrfTime(t) == <<(t \div 3600) % 24, (t \div 60) % 60, t % 60>>

\* MQTT topics imported from app/mqtts.py, by the names routes.py gives them.
SHIFT_ON_OFF == "SHIFT_ON_OFF"
ALARM == "ALARM"
ALERTS == "ALERTS"
DONE == "DONE"
CHKS_OVERDUE == "checkpoints/overdue-scan"
CONNECTED == "devices/connected"

\* topic.split("/")[-1] on the topics the client subscribes to.
LastSegment(topic) ==
    CASE topic = CHKS_OVERDUE -> "overdue-scan"
      [] topic = CONNECTED -> "connected"
      [] OTHER -> topic

\* ------------------------------------------------------------------- state

VARIABLES
    SHIFT_STATUS,       \* flag: the shift is ongoing
    CURRENT_CIRCUIT,    \* database id of the monitored circuit, or None
    SENTRY_CIRCUIT,     \* the monitored circuit (list of entries), or None
    CIRCUIT_COMPLETED,  \* flag: circuit_handler reported the shift done
    PATHS,              \* path patrol frequencies, or None
    START,              \* start epoch of the shift
    END,                \* end epoch of the shift
    ALARMS,             \* list of the times alarms were raised, or None
    ALARM_TRIGGERED,    \* flag: the alarm is raised
    APP_CONNECTED,
    HANDLER_CONNECTED,
    CHK_A_CONNECTED,
    CHK_B_CONNECTED,
    CHK_C_CONNECTED,
    CHK_D_CONNECTED,
    shifts,             \* table Shift of the database: id -> row
    published,          \* broker: the last payload published on each topic
    web,                \* frame of the operator's request or Socket.IO handler
    bus,                \* frame of the MQTT client thread's callback
    reader,             \* frame of a request that renders a page
    base                \* the world when the handlers in flight started, or None

globalVars == <<SHIFT_STATUS, CURRENT_CIRCUIT, SENTRY_CIRCUIT, CIRCUIT_COMPLETED,
                PATHS, START, END, ALARMS, ALARM_TRIGGERED>>
connVars == <<APP_CONNECTED, HANDLER_CONNECTED, CHK_A_CONNECTED, CHK_B_CONNECTED,
              CHK_C_CONNECTED, CHK_D_CONNECTED>>
vars == <<globalVars, connVars, shifts, published, web, bus, reader, base>>

\* The globals, the database and the broker as one value, for the handlers'
\* statements to read and write.
World ==
    [SHIFT_STATUS |-> SHIFT_STATUS, CURRENT_CIRCUIT |-> CURRENT_CIRCUIT,
     SENTRY_CIRCUIT |-> SENTRY_CIRCUIT, CIRCUIT_COMPLETED |-> CIRCUIT_COMPLETED,
     PATHS |-> PATHS, START |-> START, END |-> END, ALARMS |-> ALARMS,
     ALARM_TRIGGERED |-> ALARM_TRIGGERED, APP_CONNECTED |-> APP_CONNECTED,
     HANDLER_CONNECTED |-> HANDLER_CONNECTED, CHK_A_CONNECTED |-> CHK_A_CONNECTED,
     CHK_B_CONNECTED |-> CHK_B_CONNECTED, CHK_C_CONNECTED |-> CHK_C_CONNECTED,
     CHK_D_CONNECTED |-> CHK_D_CONNECTED, shifts |-> shifts, published |-> published]

SetWorld(w) ==
    /\ SHIFT_STATUS' = w.SHIFT_STATUS
    /\ CURRENT_CIRCUIT' = w.CURRENT_CIRCUIT
    /\ SENTRY_CIRCUIT' = w.SENTRY_CIRCUIT
    /\ CIRCUIT_COMPLETED' = w.CIRCUIT_COMPLETED
    /\ PATHS' = w.PATHS
    /\ START' = w.START
    /\ END' = w.END
    /\ ALARMS' = w.ALARMS
    /\ ALARM_TRIGGERED' = w.ALARM_TRIGGERED
    /\ APP_CONNECTED' = w.APP_CONNECTED
    /\ HANDLER_CONNECTED' = w.HANDLER_CONNECTED
    /\ CHK_A_CONNECTED' = w.CHK_A_CONNECTED
    /\ CHK_B_CONNECTED' = w.CHK_B_CONNECTED
    /\ CHK_C_CONNECTED' = w.CHK_C_CONNECTED
    /\ CHK_D_CONNECTED' = w.CHK_D_CONNECTED
    /\ shifts' = w.shifts
    /\ published' = w.published

\* The Active Session: the globals select_circuit and deselect_circuit own.
Session(w) ==
    [active |-> w.SHIFT_STATUS, circuit_id |-> w.CURRENT_CIRCUIT,
     circuit |-> w.SENTRY_CIRCUIT, path_frequencies |-> w.PATHS,
     start_epoch |-> w.START, end_epoch |-> w.END,
     completed |-> w.CIRCUIT_COMPLETED, alarm_history |-> w.ALARMS,
     alarm_active |-> w.ALARM_TRIGGERED]

\* The Connectivity Table.
Connectivity(w) ==
    <<w.APP_CONNECTED, w.HANDLER_CONNECTED, w.CHK_A_CONNECTED, w.CHK_B_CONNECTED,
      w.CHK_C_CONNECTED, w.CHK_D_CONNECTED>>

\* ---------------------------------------------------------------- database

\* One visit of a circuit: a card expected at a checkpoint at a time.
Entry(chk, card, t) ==
    [checkpoint |-> chk, card |-> card, expected_time |-> t,
     observed_time |-> None, status |-> "pending"]

\* utils.generate_circuit for the k-th choice of the generation form:
\* <<start, end, paths, circuit>>.
generate_circuit(k) ==
    <<k, k + 2, Some(<<"paths", k>>),
      Some(<<Entry("A", "ab12", k), Entry("B", "ab12", k + 1)>>)>>

\* Column defaults of a new Shift row (app/models.py).
ShiftDefaults == [completed |-> FALSE, alarms |-> Some(<<>>)]

\* Shift(shift_start=..., shift_end=..., circuit=..., path_freqs=...).
Shift(start, end, circuit, paths) ==
    [shift_start |-> start, shift_end |-> end, circuit |-> circuit,
     path_freqs |-> paths, completed |-> ShiftDefaults.completed,
     alarms |-> ShiftDefaults.alarms]

\* Card.query.all(): the registered cards, as rows.
CardTable == {[rfid_id |-> "ab12", alias |-> "card-1"],
              [rfid_id |-> "cd34", alias |-> "card-2"]}

\* `id == card` for a str and a Card row: a Card defines no __eq__, so a row
\* equals only itself.
StrEqCard(id, card) == FALSE

\* `id not in cards`
NotInCards(id, cards) == ~(\E c \in cards : StrEqCard(id, c))

\* utils.update_circuit(circuits, scan_info): the first pending entry of the
\* card at the checkpoint becomes confirmed, observed at the scan's time.
update_circuit(circuits, card, chk, t) ==
    IF circuits = None THEN None
    ELSE LET c == Val(circuits)
             hit == {i \in 1..Len(c) : /\ c[i].card = card
                                       /\ c[i].checkpoint = chk
                                       /\ c[i].status = "pending"}
         IN IF hit = {} THEN circuits
            ELSE LET i == CHOOSE j \in hit : \A k \in hit : j <= k
                 IN Some([c EXCEPT ![i].status = "confirmed",
                                   ![i].observed_time = Some(t)])

\* ------------------------------------------------------------------ frames

\* What the transport does with the messages a handler sends: it delivers
\* them, or mqtt.publish raises, or mqtt.publish returns an error and the
\* message is lost, or socketio.emit raises.
TransportOutcomes == {"delivers", "publish_raises", "publish_lost", "push_raises"}

\* A handler in flight: its name, arguments, next statement, locals, what it
\* has sent so far, whether it runs, returned, aborted with 404 or raised, and
\* what the transport does during this call.
Frame(h, arg) ==
    [h |-> h, arg |-> arg, pc |-> 1, loc |-> <<>>, out |-> <<>>, status |-> "running",
     transport |-> "delivers"]

FrameWith(h, arg, transport) == [Frame(h, arg) EXCEPT !.transport = transport]

Idle ==
    [h |-> "idle", arg |-> <<>>, pc |-> 0, loc |-> <<>>, out |-> <<>>, status |-> "ok",
     transport |-> "delivers"]

Running(f) == f.status = "running"

\* The statement wrote the world `w`; the handler goes on with the next one.
Goes(f, w) == [f |-> [f EXCEPT !.pc = @ + 1], w |-> w]
Jumps(f, w, pc) == [f |-> [f EXCEPT !.pc = pc], w |-> w]
\* The handler ends here.
Ends(f, w, status) == [f |-> [f EXCEPT !.status = status], w |-> w]
Raises(f, w) == Ends(f, w, "raised")

\* mqtt.publish(topic, payload, qos)
Publish(f, w, topic, payload, qos) ==
    CASE f.transport = "publish_raises" -> Raises(f, w)
      [] f.transport = "publish_lost" -> Goes(f, w)
      [] OTHER -> Goes([f EXCEPT !.out = Append(@, <<"publish", topic, payload, qos>>)],
                       [w EXCEPT !.published[topic] = payload])

\* socketio.emit("alert-msgs", data={"alert_level": level, "message": message})
Emit(f, level, message) ==
    IF f.transport = "push_raises" THEN [f EXCEPT !.status = "raised"]
    ELSE [f EXCEPT !.out = Append(@, <<"emit", level, message>>)]

\* ---------------------------------------------------------------- handlers
\* Each handler maps its frame and the world to the frame and the world after
\* its statement f.pc.

\* select_circuit(): f.arg = <<id>>, the circuit picked in the form.
select_circuit(f, w) ==
    LET id == f.arg[1]
        circuit == Val(f.loc)
    IN CASE f.pc = 1 ->
              \* form.validate_on_submit(); circuit = form.circuit.data
              IF id \in DOMAIN w.shifts
              THEN Goes([f EXCEPT !.loc = Some(w.shifts[id])], w)
              ELSE Ends(f, w, "ok")
         [] f.pc = 2 -> Goes(f, [w EXCEPT !.SHIFT_STATUS = TRUE])
         [] f.pc = 3 -> Goes(f, [w EXCEPT !.CURRENT_CIRCUIT = Some(id)])
         [] f.pc = 4 -> Goes(f, [w EXCEPT !.SENTRY_CIRCUIT = circuit.circuit])
         [] f.pc = 5 -> Goes(f, [w EXCEPT !.PATHS = circuit.path_freqs])
         [] f.pc = 6 -> Goes(f, [w EXCEPT !.START = circuit.shift_start])
         [] f.pc = 7 -> Goes(f, [w EXCEPT !.END = circuit.shift_end])
         [] f.pc = 8 -> Goes(f, [w EXCEPT !.CIRCUIT_COMPLETED = circuit.completed])
         [] f.pc = 9 -> Goes(f, [w EXCEPT !.ALARMS = circuit.alarms])
         [] f.pc = 10 -> Publish(f, w, SHIFT_ON_OFF, "ON", 0)
         [] OTHER -> Ends(f, w, "ok")

\* save_current_circuit() that also stores the completion flag in the row.
save_current_circuit_marks_completed(f, w) ==
    CASE f.pc = 1 ->
           IF w.CURRENT_CIRCUIT # None /\ Val(w.CURRENT_CIRCUIT) \in DOMAIN w.shifts
           THEN Goes([f EXCEPT !.loc = w.CURRENT_CIRCUIT], w)
           ELSE Ends(f, w, "404")
      [] f.pc = 2 ->
           IF Val(f.loc) \in DOMAIN w.shifts
           THEN Goes(f, [w EXCEPT !.shifts[Val(f.loc)].circuit = w.SENTRY_CIRCUIT,
                                  !.shifts[Val(f.loc)].completed = w.CIRCUIT_COMPLETED])
           ELSE Raises(f, w)
      [] OTHER -> Ends(f, w, "ok")

\* save_current_circuit()
save_current_circuit(f, w) ==
    CASE f.pc = 1 ->
           \* circuit = Shift.query.get_or_404(CURRENT_CIRCUIT)
           IF w.CURRENT_CIRCUIT # None /\ Val(w.CURRENT_CIRCUIT) \in DOMAIN w.shifts
           THEN Goes([f EXCEPT !.loc = w.CURRENT_CIRCUIT], w)
           ELSE Ends(f, w, "404")
      [] f.pc = 2 ->
           \* circuit.circuit = SENTRY_CIRCUIT; db.session.commit()
           IF Val(f.loc) \in DOMAIN w.shifts
           THEN Goes(f, [w EXCEPT !.shifts[Val(f.loc)].circuit = w.SENTRY_CIRCUIT])
           ELSE Raises(f, w)
      [] OTHER -> Ends(f, w, "ok")

\* deselect_circuit() that moves the end time into START before clearing END.
deselect_circuit_shifts_times(f, w) ==
    CASE f.pc = 1 -> Goes(f, [w EXCEPT !.SHIFT_STATUS = FALSE])
      [] f.pc = 2 -> Goes(f, [w EXCEPT !.CURRENT_CIRCUIT = None])
      [] f.pc = 3 -> Goes(f, [w EXCEPT !.SENTRY_CIRCUIT = None])
      [] f.pc = 4 -> Goes(f, [w EXCEPT !.START = w.END])
      [] f.pc = 5 -> Goes(f, [w EXCEPT !.END = 0])
      [] f.pc = 6 -> Publish(f, w, SHIFT_ON_OFF, "OFF", 0)
      [] OTHER -> Ends(f, w, "ok")

\* deselect_circuit() that also clears the alarm flag.
deselect_circuit_clears_alarm(f, w) ==
    CASE f.pc = 1 -> Goes(f, [w EXCEPT !.SHIFT_STATUS = FALSE])
      [] f.pc = 2 -> Goes(f, [w EXCEPT !.CURRENT_CIRCUIT = None])
      [] f.pc = 3 -> Goes(f, [w EXCEPT !.SENTRY_CIRCUIT = None])
      [] f.pc = 4 -> Goes(f, [w EXCEPT !.START = 0])
      [] f.pc = 5 -> Goes(f, [w EXCEPT !.END = 0])
      [] f.pc = 6 -> Goes(f, [w EXCEPT !.ALARM_TRIGGERED = FALSE])
      [] f.pc = 7 -> Publish(f, w, SHIFT_ON_OFF, "OFF", 0)
      [] OTHER -> Ends(f, w, "ok")

\* deselect_circuit() that also resets the completion flag.
deselect_circuit_resets_completed(f, w) ==
    CASE f.pc = 1 -> Goes(f, [w EXCEPT !.SHIFT_STATUS = FALSE])
      [] f.pc = 2 -> Goes(f, [w EXCEPT !.CURRENT_CIRCUIT = None])
      [] f.pc = 3 -> Goes(f, [w EXCEPT !.SENTRY_CIRCUIT = None])
      [] f.pc = 4 -> Goes(f, [w EXCEPT !.START = 0])
      [] f.pc = 5 -> Goes(f, [w EXCEPT !.END = 0])
      [] f.pc = 6 -> Goes(f, [w EXCEPT !.CIRCUIT_COMPLETED = FALSE])
      [] f.pc = 7 -> Publish(f, w, SHIFT_ON_OFF, "OFF", 0)
      [] OTHER -> Ends(f, w, "ok")

\* deselect_circuit()
deselect_circuit(f, w) ==
    CASE f.pc = 1 -> Goes(f, [w EXCEPT !.SHIFT_STATUS = FALSE])
      [] f.pc = 2 -> Goes(f, [w EXCEPT !.CURRENT_CIRCUIT = None])
      [] f.pc = 3 -> Goes(f, [w EXCEPT !.SENTRY_CIRCUIT = None])
      [] f.pc = 4 -> Goes(f, [w EXCEPT !.START = 0])
      [] f.pc = 5 -> Goes(f, [w EXCEPT !.END = 0])
      [] f.pc = 6 -> Publish(f, w, SHIFT_ON_OFF, "OFF", 0)
      [] OTHER -> Ends(f, w, "ok")

\* silence_alarm() that publishes before it clears the flag.
silence_alarm_publishes_first(f, w) ==
    CASE f.pc = 1 -> Publish(f, w, ALARM, "OFF", 2)
      [] f.pc = 2 -> Goes(f, [w EXCEPT !.ALARM_TRIGGERED = FALSE])
      [] OTHER -> Ends(f, w, "ok")

\* silence_alarm() that also empties the list of alarm times.
silence_alarm_empties_alarms(f, w) ==
    CASE f.pc = 1 -> Goes(f, [w EXCEPT !.ALARM_TRIGGERED = FALSE])
      [] f.pc = 2 -> Goes(f, [w EXCEPT !.ALARMS = Some(<<>>)])
      [] f.pc = 3 -> Publish(f, w, ALARM, "OFF", 2)
      [] OTHER -> Ends(f, w, "ok")

\* silence_alarm()
silence_alarm(f, w) ==
    CASE f.pc = 1 -> Goes(f, [w EXCEPT !.ALARM_TRIGGERED = FALSE])
      [] f.pc = 2 -> Publish(f, w, ALARM, "OFF", 2)
      [] OTHER -> Ends(f, w, "ok")

\* delete_circuit(shift_id): f.arg = <<shift_id>>
delete_circuit(f, w) ==
    LET shift_id == f.arg[1]
    IN CASE f.pc = 1 ->
              \* shift = Shift.query.get_or_404(shift_id); delete; commit
              IF shift_id \in DOMAIN w.shifts
              THEN Goes(f, [w EXCEPT !.shifts =
                                [i \in DOMAIN w.shifts \ {shift_id} |-> w.shifts[i]]])
              ELSE Ends(f, w, "404")
         [] OTHER -> Ends(f, w, "ok")

\* create_route(): f.arg = <<k, id>>, the form's choice and the id the database
\* gives the new row.
create_route(f, w) ==
    LET g == generate_circuit(f.arg[1])
        id == f.arg[2]
    IN CASE f.pc = 1 ->
              \* db.session.add(created_route); db.session.commit()
              Goes(f, [w EXCEPT !.shifts =
                          [i \in DOMAIN w.shifts \cup {id} |->
                              IF i = id THEN Shift(g[1], g[2], g[4], g[3])
                              ELSE w.shifts[i]]])
         [] OTHER -> Ends(f, w, "ok")

\* on_mqtt_connect(client, userdata, flags, rc): f.arg = <<rc>>
on_mqtt_connect(f, w) ==
    CASE f.pc = 1 ->
           IF f.arg[1] = 0 THEN Goes(f, [w EXCEPT !.APP_CONNECTED = TRUE])
           ELSE Ends(f, w, "ok")
      [] OTHER -> Ends(f, w, "ok")

\* home(): the values render_template is given, read one after the other.
home(f, w) ==
    LET Reads(v) == Goes([f EXCEPT !.loc = Append(@, v)], w)
    IN CASE f.pc = 1 -> Reads(w.APP_CONNECTED)
         [] f.pc = 2 -> Reads(w.HANDLER_CONNECTED)
         [] f.pc = 3 -> Reads(w.CHK_A_CONNECTED)
         [] f.pc = 4 -> Reads(w.CHK_B_CONNECTED)
         [] f.pc = 5 -> Reads(w.CHK_C_CONNECTED)
         [] f.pc = 6 -> Reads(w.CHK_D_CONNECTED)
         [] f.pc = 7 -> Reads(w.ALARM_TRIGGERED)
         [] OTHER -> Ends(f, w, "ok")

\* view_current_route(): the values render_template is given, read one after
\* the other.
view_current_route(f, w) ==
    LET Reads(v) == Goes([f EXCEPT !.loc = Append(@, v)], w)
    IN CASE f.pc = 1 -> Reads(w.SENTRY_CIRCUIT)
         [] f.pc = 2 -> Reads(w.PATHS)
         [] f.pc = 3 -> Reads(w.START)
         [] f.pc = 4 -> Reads(w.END)
         [] f.pc = 5 -> Reads(w.CIRCUIT_COMPLETED)
         [] OTHER -> Ends(f, w, "ok")

\* bool(v) that takes every value for true.
AlwaysTruthy(v) == TRUE

\* bool(v) of a JSON value
Truthy(v) ==
    CASE v[1] = "bool" -> v[2]
      [] v[1] = "num" -> v[2] # 0
      [] OTHER -> v[2] # ""

\* datetime.fromtimestamp(v) takes a number (a bool is one).
IsTimestamp(v) == v[1] \in {"num", "bool"}
Timestamp(v) == IF v[1] = "bool" THEN (IF v[2] THEN 1 ELSE 0) ELSE v[2]

\* The match statement with checkpoint-D as its default case.
ConnectionFlag_defaults_to_D(client) ==
    CASE client = Str("circuit-handler") -> "HANDLER_CONNECTED"
      [] client = Str("checkpoint-A") -> "CHK_A_CONNECTED"
      [] client = Str("checkpoint-B") -> "CHK_B_CONNECTED"
      [] client = Str("checkpoint-C") -> "CHK_C_CONNECTED"
      [] OTHER -> "CHK_D_CONNECTED"

\* The global a connectivity event of `client` writes, or "" for no case of
\* the match statement.
ConnectionFlag(client) ==
    CASE client = Str("circuit-handler") -> "HANDLER_CONNECTED"
      [] client = Str("checkpoint-A") -> "CHK_A_CONNECTED"
      [] client = Str("checkpoint-B") -> "CHK_B_CONNECTED"
      [] client = Str("checkpoint-C") -> "CHK_C_CONNECTED"
      [] client = Str("checkpoint-D") -> "CHK_D_CONNECTED"
      [] OTHER -> ""

\* on_mqtt_message, topic ending in "connected": f.arg = <<topic, payload, now>>
on_connected(f, w) ==
    LET payload == f.arg[2]
        flag == ConnectionFlag(payload[1])
        connected == Truthy(payload[2])
    IN CASE f.pc = 1 ->
              \* client, connected = list(payload.values()); match client
              IF Len(payload) # 2 THEN Raises(f, w)
              ELSE CASE flag = "HANDLER_CONNECTED" ->
                          Goes(f, [w EXCEPT !.HANDLER_CONNECTED = connected])
                     [] flag = "CHK_A_CONNECTED" ->
                          Goes(f, [w EXCEPT !.CHK_A_CONNECTED = connected])
                     [] flag = "CHK_B_CONNECTED" ->
                          Goes(f, [w EXCEPT !.CHK_B_CONNECTED = connected])
                     [] flag = "CHK_C_CONNECTED" ->
                          Goes(f, [w EXCEPT !.CHK_C_CONNECTED = connected])
                     [] flag = "CHK_D_CONNECTED" ->
                          Goes(f, [w EXCEPT !.CHK_D_CONNECTED = connected])
                     [] OTHER -> Ends(f, w, "ok")
         [] OTHER -> Ends(f, w, "ok")

\* ALARMS = [now] in place of ALARMS.append(now).
AppendAlarm_overwrites(f, w, now) ==
    IF w.ALARMS = None THEN Raises(f, w)
    ELSE Goes(f, [w EXCEPT !.ALARMS = Some(<<StrfTime(now)>>)])

\* ALARMS.append(now) on the list ALARMS names; None has no append.
AppendAlarm(f, w, now) ==
    IF w.ALARMS = None THEN Raises(f, w)
    ELSE Goes(f, [w EXCEPT !.ALARMS = Some(Append(Val(w.ALARMS), StrfTime(now)))])

\* on_mqtt_message, topic ending in "overdue-scan"
on_overdue_scan(f, w) ==
    LET payload == f.arg[2]
        id == payload[1]
        chk == payload[2]
        time == payload[3]
    IN CASE f.pc = 1 ->
              \* id, chk, time, _ = list(payload.values()); the message
              IF Len(payload) # 4 THEN Raises(f, w)
              ELSE IF ~IsTimestamp(time) \/ ~IsStr(id) THEN Raises(f, w)
              ELSE Goes([f EXCEPT !.loc = <<"OVERDUE CHECK-IN!", Upper(id[2]), chk,
                                            StrfTime(Timestamp(time))>>], w)
         [] f.pc = 2 -> Goes(f, [w EXCEPT !.ALARM_TRIGGERED = TRUE])
         [] f.pc = 3 -> AppendAlarm(f, w, f.arg[3])
         [] f.pc = 4 -> Publish(f, w, ALARM, "ON", 2)
         [] f.pc = 5 -> Goes(Emit(f, "alert-danger", f.loc), w)
         [] OTHER -> Ends(f, w, "ok")

\* The tag of an invalid scan, or None where reason.upper() raises.
AlertTag(reason, id) ==
    IF reason = Str("card not on duty")
    THEN Some(IF NotInCards(id, CardTable) THEN "UNKNOWN CARD" ELSE "STOLEN CARD")
    ELSE IF IsStr(reason) THEN Some(Upper(reason[2])) ELSE None

\* on_mqtt_message, topic ALERTS
on_alerts(f, w) ==
    LET payload == f.arg[2]
        valid == payload[1]
        reason == payload[2]
        id == payload[3]
        chk == payload[4]
        time == payload[5]
    IN CASE f.pc = 1 ->
              \* valid, reason, id, chk, time = list(payload.values())
              IF Len(payload) # 5 THEN Raises(f, w)
              ELSE IF Truthy(valid) THEN Jumps(f, w, 10)
              ELSE Goes(f, w)
         [] f.pc = 2 ->
              IF AlertTag(reason, id) = None THEN Raises(f, w)
              ELSE Goes([f EXCEPT !.loc = AlertTag(reason, id)], w)
         [] f.pc = 3 -> Goes(f, [w EXCEPT !.ALARM_TRIGGERED = TRUE])
         [] f.pc = 4 -> AppendAlarm(f, w, f.arg[3])
         [] f.pc = 5 -> Publish(f, w, ALARM, "ON", 2)
         [] f.pc = 6 ->
              IF ~IsStr(id) THEN Raises(f, w)
              ELSE Goes(Emit(f, "alert-danger", <<Val(f.loc), Upper(id[2]), chk, time>>), w)
         [] f.pc = 10 ->
              \* utils.update_circuit(circuits=SENTRY_CIRCUIT, scan_info=scan_info)
              IF IsStr(id) /\ IsStr(chk) /\ IsNum(time)
              THEN Goes(f, [w EXCEPT !.SENTRY_CIRCUIT =
                                        update_circuit(@, id[2], chk[2], time[2])])
              ELSE Goes(f, w)
         [] f.pc = 11 ->
              IF ~IsStr(id) THEN Raises(f, w)
              ELSE Goes(Emit(f, "alert-success",
                             <<"SUCCESSFUL CHECK-IN!", Upper(id[2]), chk, time>>), w)
         [] OTHER -> Ends(f, w, "ok")

\* The DONE branch that also stores the finished circuit in its row.
on_done_saves(f, w) ==
    CASE f.pc = 1 -> Goes(f, [w EXCEPT !.CIRCUIT_COMPLETED = TRUE])
      [] f.pc = 2 ->
           IF w.CURRENT_CIRCUIT # None /\ Val(w.CURRENT_CIRCUIT) \in DOMAIN w.shifts
           THEN Goes(f, [w EXCEPT !.SHIFT_STATUS = FALSE,
                                  !.shifts[Val(w.CURRENT_CIRCUIT)].circuit = w.SENTRY_CIRCUIT])
           ELSE Goes(f, [w EXCEPT !.SHIFT_STATUS = FALSE])
      [] f.pc = 3 -> Publish(f, w, SHIFT_ON_OFF, "OFF", 0)
      [] f.pc = 4 -> Goes(Emit(f, "alert-success", <<"CIRCUIT COMPLETE!">>), w)
      [] OTHER -> Ends(f, w, "ok")

\* The DONE branch that also forgets which circuit is monitored.
on_done_deselects(f, w) ==
    CASE f.pc = 1 -> Goes(f, [w EXCEPT !.CIRCUIT_COMPLETED = TRUE])
      [] f.pc = 2 -> Goes(f, [w EXCEPT !.SHIFT_STATUS = FALSE, !.CURRENT_CIRCUIT = None])
      [] f.pc = 3 -> Publish(f, w, SHIFT_ON_OFF, "OFF", 0)
      [] f.pc = 4 -> Goes(Emit(f, "alert-success", <<"CIRCUIT COMPLETE!">>), w)
      [] OTHER -> Ends(f, w, "ok")

\* on_mqtt_message, topic DONE
on_done(f, w) ==
    CASE f.pc = 1 -> Goes(f, [w EXCEPT !.CIRCUIT_COMPLETED = TRUE])
      [] f.pc = 2 -> Goes(f, [w EXCEPT !.SHIFT_STATUS = FALSE])
      [] f.pc = 3 -> Publish(f, w, SHIFT_ON_OFF, "OFF", 0)
      [] f.pc = 4 -> Goes(Emit(f, "alert-success", <<"CIRCUIT COMPLETE!">>), w)
      [] OTHER -> Ends(f, w, "ok")

\* on_mqtt_message(client, userdata, message): the branch of the topic.
on_mqtt_message(f, w) ==
    LET topic == f.arg[1]
    IN CASE LastSegment(topic) = "connected" -> on_connected(f, w)
         [] LastSegment(topic) = "overdue-scan" -> on_overdue_scan(f, w)
         [] topic = ALERTS -> on_alerts(f, w)
         [] topic = DONE -> on_done(f, w)
         [] OTHER -> Ends(f, w, "ok")

\* One statement of the handler in frame f.
Step(f, w) ==
    CASE f.h = "select_circuit" -> select_circuit(f, w)
      [] f.h = "save_current_circuit" -> save_current_circuit(f, w)
      [] f.h = "deselect_circuit" -> deselect_circuit(f, w)
      [] f.h = "delete_circuit" -> delete_circuit(f, w)
      [] f.h = "create_route" -> create_route(f, w)
      [] f.h = "silence_alarm" -> silence_alarm(f, w)
      [] f.h = "home" -> home(f, w)
      [] f.h = "view_current_route" -> view_current_route(f, w)
      [] f.h = "on_mqtt_connect" -> on_mqtt_connect(f, w)
      [] f.h = "on_mqtt_message" -> on_mqtt_message(f, w)
      [] OTHER -> Ends(f, w, "ok")

\* The handler run from frame f to its end, nothing else running meanwhile.
RECURSIVE Run(_, _)
Run(f, w) ==
    IF Running(f) THEN LET r == Step(f, w) IN Run(r.f, r.w)
    ELSE [f |-> f, w |-> w]

\* The handler h called with arg on world w, run to its end.
Call(h, arg, w) == Run(Frame(h, arg), w)

\* The same call while the transport does as `transport` says.
CallWith(h, arg, transport, w) == Run(FrameWith(h, arg, transport), w)

\* ------------------------------------------------------------------ inputs

\* The names the match statement of the connectivity branch knows.
DeviceNames == {"circuit-handler", "checkpoint-A", "checkpoint-B", "checkpoint-C",
                "checkpoint-D"}

\* list(payload.values()) of the well-formed payloads of each topic: a device
\* the match knows and one it does not; a card and checkpoint of the circuit
\* and a pair that is not; both reasons of an invalid scan.
ConnectedPayloads ==
    {<<Str(c), Bool(b)>> : c \in {"checkpoint-A", "checkpoint-E"}, b \in BOOLEAN}
OverduePayloads ==
    {<<Str("ab12"), Str("A"), Num(1), Bool(FALSE)>>,
     <<Str("ef56"), Str("C"), Num(0), Bool(FALSE)>>}
ValidScanPayloads ==
    {<<Bool(TRUE), Str(""), Str("ab12"), Str("A"), Num(1)>>,
     <<Bool(TRUE), Str(""), Str("ab12"), Str("B"), Num(1)>>,
     <<Bool(TRUE), Str(""), Str("ef56"), Str("C"), Num(1)>>}
InvalidScanPayloads ==
    {<<Bool(FALSE), Str("card not on duty"), Str("ef56"), Str("A"), Num(1)>>,
     <<Bool(FALSE), Str("wrong checkpoint"), Str("ab12"), Str("B"), Num(0)>>}

\* Payloads that are not of their topic's form: a field missing, a field too
\* many, a card id that is a number, a time that is a string, a connected
\* value that is a string.
MalformedEvents ==
    {<<CONNECTED, <<Str("checkpoint-A")>> >>,
     <<CONNECTED, <<Str("checkpoint-A"), Bool(TRUE), Num(1)>> >>,
     <<CONNECTED, <<Str("checkpoint-A"), Str("no")>> >>,
     <<CHKS_OVERDUE, <<Str("ab12"), Str("A"), Num(1)>> >>,
     <<CHKS_OVERDUE, <<Num(7), Str("A"), Num(1), Bool(FALSE)>> >>,
     <<CHKS_OVERDUE, <<Str("ab12"), Str("A"), Str("noon"), Bool(FALSE)>> >>,
     <<ALERTS, <<Bool(FALSE), Str("wrong checkpoint"), Str("ab12"), Str("B")>> >>,
     <<ALERTS, <<Bool(FALSE), Str("wrong checkpoint"), Num(7), Str("B"), Num(0)>> >>,
     <<ALERTS, <<Bool(TRUE), Str(""), Num(7), Str("A"), Num(1)>> >>}

\* ALARMS has room for one more entry (the bound on its length).
AlarmRoom(w) == IF w.ALARMS = None THEN TRUE ELSE Len(Val(w.ALARMS)) < MaxAlarms

\* -------------------------------------------------------------------- Init

NoShifts == [i \in {} |-> None]
NothingPublished == (SHIFT_ON_OFF :> "") @@ (ALARM :> "")

\* The module-level globals as routes.py sets them, an empty database, a
\* broker nothing was published on.
InitWorld ==
    [SHIFT_STATUS |-> FALSE, CURRENT_CIRCUIT |-> None, SENTRY_CIRCUIT |-> None,
     CIRCUIT_COMPLETED |-> FALSE, PATHS |-> None, START |-> 0, END |-> 0,
     ALARMS |-> None, ALARM_TRIGGERED |-> FALSE, APP_CONNECTED |-> FALSE,
     HANDLER_CONNECTED |-> FALSE, CHK_A_CONNECTED |-> FALSE,
     CHK_B_CONNECTED |-> FALSE, CHK_C_CONNECTED |-> FALSE,
     CHK_D_CONNECTED |-> FALSE, shifts |-> NoShifts, published |-> NothingPublished]

\* The world is w.
IsWorld(w) ==
    /\ SHIFT_STATUS = w.SHIFT_STATUS
    /\ CURRENT_CIRCUIT = w.CURRENT_CIRCUIT
    /\ SENTRY_CIRCUIT = w.SENTRY_CIRCUIT
    /\ CIRCUIT_COMPLETED = w.CIRCUIT_COMPLETED
    /\ PATHS = w.PATHS
    /\ START = w.START
    /\ END = w.END
    /\ ALARMS = w.ALARMS
    /\ ALARM_TRIGGERED = w.ALARM_TRIGGERED
    /\ APP_CONNECTED = w.APP_CONNECTED
    /\ HANDLER_CONNECTED = w.HANDLER_CONNECTED
    /\ CHK_A_CONNECTED = w.CHK_A_CONNECTED
    /\ CHK_B_CONNECTED = w.CHK_B_CONNECTED
    /\ CHK_C_CONNECTED = w.CHK_C_CONNECTED
    /\ CHK_D_CONNECTED = w.CHK_D_CONNECTED
    /\ shifts = w.shifts
    /\ published = w.published

Init ==
    /\ IsWorld(InitWorld)
    /\ web = Idle
    /\ bus = Idle
    /\ reader = Idle
    /\ base = None

\* ------------------------------------------------- handlers, one at a time

\* No handler is in flight.
Quiet == ~Running(web) /\ ~Running(bus) /\ ~Running(reader)

\* Handler h runs from its first statement to its end.
Handle(h, arg) ==
    LET r == Call(h, arg, World)
    IN SetWorld(r.w) /\ UNCHANGED <<web, bus, reader, base>>

SelectCircuit ==
    /\ Quiet
    /\ \E id \in ShiftIds : Handle("select_circuit", <<id>>)

SaveCurrentCircuit ==
    /\ Quiet
    /\ Handle("save_current_circuit", <<>>)

DeselectCircuit ==
    /\ Quiet
    /\ Handle("deselect_circuit", <<>>)

DeleteCircuit ==
    /\ Quiet
    /\ \E id \in ShiftIds : Handle("delete_circuit", <<id>>)

\* The form of the shift that gets id i asks for start time i.
CreateRoute ==
    /\ Quiet
    /\ \E id \in ShiftIds \ DOMAIN shifts : Handle("create_route", <<id, id>>)

SilenceAlarm ==
    /\ Quiet
    /\ Handle("silence_alarm", <<>>)

OnMqttConnect ==
    /\ Quiet
    /\ \E rc \in {0, 5} : Handle("on_mqtt_connect", <<rc>>)

OnDeviceStatusEvent ==
    /\ Quiet
    /\ \E p \in ConnectedPayloads : Handle("on_mqtt_message", <<CONNECTED, p, 0>>)

OnOverdueEvent ==
    /\ Quiet
    /\ AlarmRoom(World)
    /\ \E p \in OverduePayloads : \E now \in Times :
          Handle("on_mqtt_message", <<CHKS_OVERDUE, p, now>>)

OnValidScan ==
    /\ Quiet
    /\ \E p \in ValidScanPayloads : Handle("on_mqtt_message", <<ALERTS, p, 0>>)

OnInvalidScan ==
    /\ Quiet
    /\ AlarmRoom(World)
    /\ \E p \in InvalidScanPayloads : \E now \in Times :
          Handle("on_mqtt_message", <<ALERTS, p, now>>)

OnScanResult == OnValidScan \/ OnInvalidScan

OnShiftComplete ==
    /\ Quiet
    /\ Handle("on_mqtt_message", <<DONE, <<>>, 0>>)

OnMalformedEvent ==
    /\ Quiet
    /\ AlarmRoom(World)
    /\ \E e \in MalformedEvents : \E now \in Times :
          Handle("on_mqtt_message", <<e[1], e[2], now>>)

Next ==
    \/ SelectCircuit
    \/ SaveCurrentCircuit
    \/ DeselectCircuit
    \/ DeleteCircuit
    \/ CreateRoute
    \/ SilenceAlarm
    \/ OnMqttConnect
    \/ OnDeviceStatusEvent
    \/ OnOverdueEvent
    \/ OnValidScan
    \/ OnInvalidScan
    \/ OnShiftComplete
    \/ OnMalformedEvent

Spec == Init /\ [][Next]_vars

\* ---------------------- handlers, one at a time, over a failing transport
\* The operations that write the session and publish, each run whole while
\* the broker or the socket delivers, loses or refuses what the handler sends.

\* Handler h runs from its first statement to its end, or to the statement
\* where the transport makes it raise.
HandleWith(h, arg) ==
    \E transport \in TransportOutcomes :
        LET r == CallWith(h, arg, transport, World)
        IN SetWorld(r.w) /\ UNCHANGED <<web, bus, reader, base>>

SelectOverTransport ==
    /\ Quiet
    /\ \E id \in ShiftIds : HandleWith("select_circuit", <<id>>)

DeselectOverTransport ==
    /\ Quiet
    /\ HandleWith("deselect_circuit", <<>>)

SilenceOverTransport ==
    /\ Quiet
    /\ HandleWith("silence_alarm", <<>>)

OverdueOverTransport ==
    /\ Quiet
    /\ AlarmRoom(World)
    /\ \E p \in OverduePayloads : \E now \in Times :
          HandleWith("on_mqtt_message", <<CHKS_OVERDUE, p, now>>)

InvalidScanOverTransport ==
    /\ Quiet
    /\ AlarmRoom(World)
    /\ \E p \in InvalidScanPayloads : \E now \in Times :
          HandleWith("on_mqtt_message", <<ALERTS, p, now>>)

ShiftCompleteOverTransport ==
    /\ Quiet
    /\ HandleWith("on_mqtt_message", <<DONE, <<>>, 0>>)

TransportNext ==
    \/ CreateRoute
    \/ SelectOverTransport
    \/ DeselectOverTransport
    \/ SilenceOverTransport
    \/ OverdueOverTransport
    \/ InvalidScanOverTransport
    \/ ShiftCompleteOverTransport

TransportSpec == Init /\ [][TransportNext]_vars

\* ------------------------------------- handlers, one statement at a time
\* Nothing in routes.py locks the globals: a request thread and the MQTT
\* client thread each run their handler statement by statement, in any order.

\* The handlers run in a sequence of calls <<h, arg>>, one after the other.
RECURSIVE After(_, _)
After(w, calls) ==
    IF calls = <<>> THEN w
    ELSE After(Call(calls[1][1], calls[1][2], w).w, Tail(calls))

OverdueCall ==
    <<"on_mqtt_message",
      <<CHKS_OVERDUE, <<Str("ab12"), Str("A"), Num(1), Bool(FALSE)>>, 1>> >>
InvalidScanCall ==
    <<"on_mqtt_message",
      <<ALERTS, <<Bool(FALSE), Str("wrong checkpoint"), Str("ab12"), Str("B"), Num(0)>>, 1>> >>
ValidScanCall ==
    <<"on_mqtt_message",
      <<ALERTS, <<Bool(TRUE), Str(""), Str("ab12"), Str("A"), Num(1)>>, 0>> >>
DoneCall == <<"on_mqtt_message", <<DONE, <<>>, 0>> >>
SelectCall(id) == <<"select_circuit", <<id>> >>
DeselectCall == <<"deselect_circuit", <<>> >>
SilenceCall == <<"silence_alarm", <<>> >>
CreateCall(id) == <<"create_route", <<id, id>> >>

\* Two circuits are stored; then no session, a session, a session with an
\* alarm raised or silenced, a session with a scan confirmed, a completed
\* session, a deselected one.
Stored == <<CreateCall(1), CreateCall(2)>>
RaceBases ==
    {After(InitWorld, Stored \o tail) : tail \in
        {<<>>,
         <<SelectCall(1)>>,
         <<SelectCall(1), OverdueCall>>,
         <<SelectCall(1), OverdueCall, SilenceCall>>,
         <<SelectCall(1), ValidScanCall>>,
         <<SelectCall(1), DoneCall>>,
         <<SelectCall(1), OverdueCall, DeselectCall>>}}

NoCall == <<"idle", <<>> >>
WebCalls == {SelectCall(1), SelectCall(2), DeselectCall, SilenceCall}
BusCalls == {OverdueCall, InvalidScanCall, ValidScanCall, DoneCall}
ReaderCalls == {<<"home", <<>> >>, <<"view_current_route", <<>> >>}

FrameOf(call) == IF call[1] = "idle" THEN Idle ELSE Frame(call[1], call[2])

ConcInit ==
    /\ \E w \in RaceBases : IsWorld(w)
    /\ web = Idle
    /\ bus = Idle
    /\ reader = Idle
    /\ base = None

\* Two handlers are called at the same time: an operator action and a bus
\* event, or a page and one of those.
StartRace ==
    /\ base = None
    /\ \E a \in WebCalls \cup {NoCall}, b \in BusCalls \cup {NoCall},
          c \in ReaderCalls \cup {NoCall} :
          /\ Cardinality({x \in {a, b, c} : x[1] # "idle"}) = 2
          /\ web' = FrameOf(a)
          /\ bus' = FrameOf(b)
          /\ reader' = FrameOf(c)
    /\ base' = Some(World)
    /\ UNCHANGED <<globalVars, connVars, shifts, published>>

\* The operator's handler runs its next statement.
StepWeb ==
    /\ Running(web)
    /\ LET r == Step(web, World) IN SetWorld(r.w) /\ web' = r.f
    /\ UNCHANGED <<bus, reader, base>>

\* The MQTT callback runs its next statement.
StepBus ==
    /\ Running(bus)
    /\ LET r == Step(bus, World) IN SetWorld(r.w) /\ bus' = r.f
    /\ UNCHANGED <<web, reader, base>>

\* The rendering request reads its next value.
StepReader ==
    /\ Running(reader)
    /\ LET r == Step(reader, World) IN SetWorld(r.w) /\ reader' = r.f
    /\ UNCHANGED <<web, bus, base>>

ConcNext ==
    \/ StartRace
    \/ StepWeb
    \/ StepBus
    \/ StepReader

ConcSpec == ConcInit /\ [][ConcNext]_vars

\* ------------------------------------------------------------------ claims

\* C1: in every reachable state the alarm flag is set only while the shift
\* is ongoing (ALARM_TRIGGERED only if SHIFT_STATUS).
C1_AlarmOnlyWhileActive == ALARM_TRIGGERED => SHIFT_STATUS

\* C2: select_circuit, called in any state on a stored circuit, leaves every
\* field of the session at the value of that circuit, the shift ongoing and
\* the alarm flag cleared.
C2_SelectResetsEverySessionField ==
    \A id \in DOMAIN shifts :
        LET r == Call("select_circuit", <<id>>, World)
        IN Session(r.w) =
             [active |-> TRUE, circuit_id |-> Some(id),
              circuit |-> shifts[id].circuit,
              path_frequencies |-> shifts[id].path_freqs,
              start_epoch |-> shifts[id].shift_start,
              end_epoch |-> shifts[id].shift_end,
              completed |-> shifts[id].completed,
              alarm_history |-> shifts[id].alarms,
              alarm_active |-> FALSE]

\* The handlers called together have all ended.
RaceOver ==
    /\ base # None
    /\ ~Running(web)
    /\ ~Running(bus)
    /\ ~Running(reader)

\* C3: operator actions and bus event handlers are serialized: when a
\* select_circuit or deselect_circuit has run concurrently with a scan-result,
\* overdue or shift-complete handler, the session is the one that running the
\* two one after the other, in one of the two orders, produces.
C3_OperatorAndBusSerialized ==
    (/\ RaceOver
     /\ web.h \in {"select_circuit", "deselect_circuit"}
     /\ bus.h = "on_mqtt_message")
        => LET webFirst == Call(bus.h, bus.arg, Call(web.h, web.arg, Val(base)).w).w
               busFirst == Call(web.h, web.arg, Call(bus.h, bus.arg, Val(base)).w).w
           IN \/ Session(World) = Session(webFirst)
              \/ Session(World) = Session(busFirst)

\* What handler h renders when nothing else runs while it reads the world w.
Rendered(h, w) == Call(h, <<>>, w).f.loc

\* C4: the values a page is rendered from are those the globals had together
\* at one point between operations: before the handler that ran concurrently
\* with the read, or after it.
C4_RenderedSnapshotConsistent ==
    (/\ base # None
     /\ reader.h \in {"home", "view_current_route"}
     /\ ~Running(reader))
        => LET writer == IF web.h # "idle" THEN web ELSE bus
               after == Call(writer.h, writer.arg, Val(base)).w
           IN \/ reader.loc = Rendered(reader.h, Val(base))
              \/ reader.loc = Rendered(reader.h, after)

\* The bus events that raise the alarm: overdue reports and invalid scans.
AlarmEvents ==
    {<<CHKS_OVERDUE, p>> : p \in OverduePayloads}
        \cup {<<ALERTS, p>> : p \in InvalidScanPayloads}

\* What a handler sent: some publish of payload on topic at qos, some emit at level.
Published(out, topic, payload, qos) ==
    \E i \in 1..Len(out) : out[i] = <<"publish", topic, payload, qos>>
Emitted(out, level) ==
    \E i \in 1..Len(out) : out[i][1] = "emit" /\ out[i][2] = level

\* C5: every overdue event and every invalid scan, in any reachable state,
\* ends without raising, sets the alarm flag, appends exactly one time to
\* ALARMS, publishes "ON" on the alarm topic at QoS 2 and emits a danger
\* message.
C5_AlarmEventsRaiseTheAlarm ==
    AlarmRoom(World) =>
        \A e \in AlarmEvents : \A now \in Times :
            LET r == Call("on_mqtt_message", <<e[1], e[2], now>>, World)
            IN /\ r.f.status = "ok"
               /\ r.w.ALARM_TRIGGERED
               /\ ALARMS # None
               /\ r.w.ALARMS = Some(Append(Val(ALARMS), StrfTime(now)))
               /\ Published(r.f.out, ALARM, "ON", 2)
               /\ Emitted(r.f.out, "alert-danger")

\* The entries of the monitored circuit that an overdue report of payload p
\* is about and that are still pending.
PendingEntries(p) ==
    IF SENTRY_CIRCUIT = None THEN {}
    ELSE {i \in 1..Len(Val(SENTRY_CIRCUIT)) :
            /\ Val(SENTRY_CIRCUIT)[i].card = p[1][2]
            /\ Val(SENTRY_CIRCUIT)[i].checkpoint = p[2][2]
            /\ Val(SENTRY_CIRCUIT)[i].expected_time = p[3][2]
            /\ Val(SENTRY_CIRCUIT)[i].status = "pending"}

\* C6: an overdue event for a pending entry of the monitored circuit makes
\* that entry missed and changes no other entry.
C6_OverdueMarksEntryMissed ==
    AlarmRoom(World) =>
        \A p \in OverduePayloads : \A i \in PendingEntries(p) :
            LET r == Call("on_mqtt_message", <<CHKS_OVERDUE, p, 0>>, World)
            IN r.w.SENTRY_CIRCUIT =
                 Some([Val(SENTRY_CIRCUIT) EXCEPT ![i].status = "missed"])

\* C7: alarms never clear by themselves: a step that takes the alarm flag
\* from set to cleared is a step of silence_alarm.
C7_OnlySilenceClearsAlarm ==
    [][(ALARM_TRIGGERED /\ ~ALARM_TRIGGERED') => SilenceAlarm]_vars

\* The alarm was raised in a session, the session was deselected, and the
\* flag is still set.
C7_Witness ==
    /\ ALARM_TRIGGERED
    /\ CURRENT_CIRCUIT = None
    /\ ALARMS # None
    /\ published[ALARM] = "ON"
    /\ published[SHIFT_ON_OFF] = "OFF"

\* C8: silence_alarm, in any state, clears the alarm flag, publishes "OFF" on
\* the alarm topic and leaves ALARMS, the rest of the session, the connection
\* flags and the database as they were.
C8_SilenceOnlyClearsTheFlag ==
    LET r == Call("silence_alarm", <<>>, World)
    IN /\ r.f.status = "ok"
       /\ r.f.out = << <<"publish", ALARM, "OFF", 2>> >>
       /\ r.w = [World EXCEPT !.ALARM_TRIGGERED = FALSE, !.published[ALARM] = "OFF"]

\* The alarm was raised and then silenced; its time is still in ALARMS.
C8_Witness ==
    /\ ~ALARM_TRIGGERED
    /\ published[ALARM] = "OFF"
    /\ ALARMS # None
    /\ ALARMS # Some(<<>>)

\* ALARMS after the step is ALARMS before it with one entry more at the end.
AppendedOne ==
    /\ ALARMS # None
    /\ ALARMS' # None
    /\ Len(Val(ALARMS')) = Len(Val(ALARMS)) + 1
    /\ SubSeq(Val(ALARMS'), 1, Len(Val(ALARMS))) = Val(ALARMS)

\* C9: ALARMS is append-only within a session: a step that is not one of
\* select_circuit or deselect_circuit leaves it as it was or appends one entry.
C9_AlarmsAppendOnly ==
    [][ALARMS' = ALARMS \/ AppendedOne \/ SelectCircuit \/ DeselectCircuit]_vars

\* Two alarms were raised in one session, at different times.
C9_Witness ==
    /\ ALARMS # None
    /\ Len(Val(ALARMS)) = 2
    /\ Val(ALARMS)[1] # Val(ALARMS)[2]

\* C10: CIRCUIT_COMPLETED is monotonic: a step that takes it from true to false
\* is a step of select_circuit.
C10_CompletedMonotonic ==
    [][(CIRCUIT_COMPLETED /\ ~CIRCUIT_COMPLETED') => SelectCircuit]_vars

\* The shift was completed and then deselected, and the flag is still set.
C10_Witness ==
    /\ CIRCUIT_COMPLETED
    /\ CURRENT_CIRCUIT = None
    /\ PATHS # None

\* The Active Session with nothing selected: the state the globals start in,
\* the list of alarm times empty or None.
EmptySession(s) ==
    /\ ~s.active
    /\ s.circuit_id = None
    /\ s.circuit = None
    /\ s.path_frequencies = None
    /\ s.start_epoch = 0
    /\ s.end_epoch = 0
    /\ ~s.completed
    /\ s.alarm_history \in {None, Some(<<>>)}
    /\ ~s.alarm_active

\* C11: deselect_circuit, in any state, leaves the Active Session empty (no
\* shift, no circuit, no paths, times cleared, not completed, no alarm times,
\* alarm off) and publishes "OFF" on the shift topic.
C11_DeselectClearsSession ==
    LET r == Call("deselect_circuit", <<>>, World)
    IN /\ r.f.status = "ok"
       /\ Published(r.f.out, SHIFT_ON_OFF, "OFF", 0)
       /\ EmptySession(Session(r.w))

\* C12: deselect_circuit is idempotent: a second call right after a first
\* leaves the Active Session and the connection flags as the first left them,
\* and a call made while no circuit is selected leaves them as they were.
C12_DeselectIdempotent ==
    LET one == Call("deselect_circuit", <<>>, World).w
        two == Call("deselect_circuit", <<>>, one).w
    IN /\ Session(two) = Session(one)
       /\ Connectivity(two) = Connectivity(one)
       /\ (CURRENT_CIRCUIT = None =>
             /\ Session(one) = Session(World)
             /\ Connectivity(one) = Connectivity(World))

\* C12 as stated, "no session is active" read as the shift not being ongoing:
\* a call made while SHIFT_STATUS is False leaves the Active Session as it was.
C12_DeselectNoOpWhenInactive ==
    ~SHIFT_STATUS =>
        Session(Call("deselect_circuit", <<>>, World).w) = Session(World)

\* A session was deselected after an alarm and a device report: the paths, the
\* alarm time and the connection flag it left are what a further call keeps.
C12_Witness ==
    /\ CURRENT_CIRCUIT = None
    /\ published[SHIFT_ON_OFF] = "OFF"
    /\ PATHS # None
    /\ ALARMS # None
    /\ ALARMS # Some(<<>>)
    /\ CHK_A_CONNECTED

\* The monitored circuit is still a row of the database.
Resolves(w) == w.CURRENT_CIRCUIT # None /\ Val(w.CURRENT_CIRCUIT) \in DOMAIN w.shifts

\* Some visit of circuit c has been confirmed by a scan.
HasConfirmed(c) ==
    c # None /\ \E i \in 1..Len(Val(c)) : Val(c)[i].status = "confirmed"

\* C13: the DONE event sets CIRCUIT_COMPLETED, clears SHIFT_STATUS, publishes
\* "OFF" on the shift topic and emits the completion message; it writes neither
\* the database nor any other global, so that save_current_circuit, called
\* next, still finds the row of CURRENT_CIRCUIT and stores the circuit in it.
C13_DoneLeavesCircuitToSave ==
    LET r == Call("on_mqtt_message", <<DONE, <<>>, 0>>, World)
        s == Call("save_current_circuit", <<>>, r.w)
    IN /\ r.f.status = "ok"
       /\ r.f.out = << <<"publish", SHIFT_ON_OFF, "OFF", 0>>,
                       <<"emit", "alert-success", <<"CIRCUIT COMPLETE!">> >> >>
       /\ r.w = [World EXCEPT !.CIRCUIT_COMPLETED = TRUE, !.SHIFT_STATUS = FALSE,
                              !.published[SHIFT_ON_OFF] = "OFF"]
       /\ Resolves(World) =>
            /\ s.f.status = "ok"
            /\ s.w.shifts[Val(CURRENT_CIRCUIT)].circuit = SENTRY_CIRCUIT

\* A shift with a confirmed visit was completed and then saved.
C13_Witness ==
    /\ CIRCUIT_COMPLETED
    /\ ~SHIFT_STATUS
    /\ Resolves(World)
    /\ HasConfirmed(SENTRY_CIRCUIT)
    /\ shifts[Val(CURRENT_CIRCUIT)].circuit = SENTRY_CIRCUIT

\* The handler sent nothing to the broker.
NothingPublishedBy(out) == \A i \in 1..Len(out) : out[i][1] # "publish"

Registered(id) == \E c \in CardTable : c.rfid_id = id

\* The tag of the message the handler emitted, if it emitted one.
EmittedTag(out, tag) ==
    \E i \in 1..Len(out) : out[i][1] = "emit" /\ out[i][3][1] = tag

\* C15: an invalid scan with reason "card not on duty" is tagged STOLEN CARD
\* when its card is registered and UNKNOWN CARD when it is not; with any other
\* reason the tag is the reason in upper case.
C15_TagTellsStolenFromUnknown ==
    (ALARMS # None /\ AlarmRoom(World)) =>
        \A id \in {"ab12", "cd34", "ef56"} :
            LET scan(reason) == Call("on_mqtt_message",
                                     <<ALERTS, <<Bool(FALSE), Str(reason), Str(id),
                                                 Str("A"), Num(1)>>, 0>>, World)
            IN /\ EmittedTag(scan("card not on duty").f.out,
                             IF Registered(id) THEN "STOLEN CARD" ELSE "UNKNOWN CARD")
               /\ EmittedTag(scan("wrong checkpoint").f.out, "WRONG CHECKPOINT")

\* The device names a connectivity event may carry: the five of the match
\* statement and one it has no case for.
ReportedNames == DeviceNames \cup {"checkpoint-E"}

\* C16: a connectivity event writes at most the flag of the device it names:
\* the flag of a known device becomes the reported value, an unknown name
\* changes nothing and raises nothing; the session, the alarm state, the
\* database and the broker stay as they were.
C16_StatusEventWritesOneFlag ==
    \A c \in ReportedNames : \A b \in BOOLEAN :
        LET r == Call("on_mqtt_message", <<CONNECTED, <<Str(c), Bool(b)>>, 0>>, World)
        IN /\ r.f.status = "ok"
           /\ r.f.out = <<>>
           /\ r.w = IF c \in DeviceNames
                    THEN [World EXCEPT ![ConnectionFlag(Str(c))] = b]
                    ELSE World

\* Checkpoint A reported itself connected during a shift with the alarm on.
C16_Witness ==
    /\ CHK_A_CONNECTED
    /\ SHIFT_STATUS
    /\ ALARM_TRIGGERED
    /\ ~CHK_B_CONNECTED

\* C17: a malformed payload on the connectivity, overdue or scan-result topic
\* is dropped: the handler ends without raising, publishes and emits nothing,
\* and leaves the session, the alarm state and the connection flags unchanged.
C17_MalformedEventsDropped ==
    AlarmRoom(World) =>
        \A e \in MalformedEvents : \A now \in Times :
            LET r == Call("on_mqtt_message", <<e[1], e[2], now>>, World)
            IN /\ r.f.status = "ok"
               /\ r.f.out = <<>>
               /\ r.w = World

\* C18: save_current_circuit stores SENTRY_CIRCUIT in the row CURRENT_CIRCUIT
\* names and changes nothing else; where CURRENT_CIRCUIT names no row (None,
\* or the row was deleted) it aborts with 404 and changes nothing at all.
C18_SaveWritesRowOrNotFound ==
    LET r == Call("save_current_circuit", <<>>, World)
    IN IF Resolves(World)
       THEN /\ r.f.status = "ok"
            /\ r.w = [World EXCEPT !.shifts[Val(CURRENT_CIRCUIT)].circuit = SENTRY_CIRCUIT]
       ELSE /\ r.f.status = "404"
            /\ r.w = World

\* A confirmed visit was saved to the row of the monitored circuit, the shift
\* still ongoing, while the row of the other circuit was deleted.
C18_Witness ==
    /\ Resolves(World)
    /\ SHIFT_STATUS
    /\ HasConfirmed(shifts[Val(CURRENT_CIRCUIT)].circuit)
    /\ DOMAIN shifts = {Val(CURRENT_CIRCUIT)}

\* C18, the 404 side: the row of the monitored circuit was deleted during the
\* shift.
C18_WitnessNotFound ==
    /\ CURRENT_CIRCUIT # None
    /\ SHIFT_STATUS
    /\ ~Resolves(World)

\* The operations that write the session and publish: select, deselect,
\* silence, the DONE event, overdue reports and invalid scans.
PublishingCalls ==
    {SelectCall(id) : id \in ShiftIds}
        \cup {DeselectCall, SilenceCall, DoneCall}
        \cup {<<"on_mqtt_message", <<e[1], e[2], now>> >> : e \in AlarmEvents, now \in Times}

\* What a handler has committed: the globals and the database, whatever the
\* broker received.
Committed(w) == [w EXCEPT !.published = NothingPublished]

C20_OnlySaveWritesRows ==
    [][shifts' # shifts => SaveCurrentCircuit \/ CreateRoute \/ DeleteCircuit]_vars

\* The monitored circuit has a confirmed visit, an alarm and is completed,
\* while its row still holds the circuit as generated.
C20_Witness ==
    /\ Resolves(World)
    /\ HasConfirmed(SENTRY_CIRCUIT)
    /\ ~HasConfirmed(shifts[Val(CURRENT_CIRCUIT)].circuit)
    /\ ALARM_TRIGGERED
    /\ CIRCUIT_COMPLETED

\* The last message on the shift topic, if there is one, is "ON" exactly
\* while the shift is ongoing.
ShiftTopicAgrees ==
    published[SHIFT_ON_OFF] # "" => (published[SHIFT_ON_OFF] = "ON" <=> SHIFT_STATUS)

\* While the alarm flag is set the last message on the alarm topic is "ON".
AlarmTopicAgrees == ALARM_TRIGGERED => published[ALARM] = "ON"

\* C21: with the handlers run one at a time, after each of them the broker
\* agrees with the globals: the last shift message is "ON" exactly while
\* SHIFT_STATUS is set, and while ALARM_TRIGGERED is set the last alarm
\* message is "ON".
C21_BrokerAgreesWithState == ShiftTopicAgrees /\ AlarmTopicAgrees

\* silence_alarm ran together with an overdue report or an invalid scan, and
\* both have returned normally.
SilenceRacedAlarm ==
    /\ RaceOver
    /\ web.h = "silence_alarm"
    /\ web.status = "ok"
    /\ <<bus.h, bus.arg>> \in {OverdueCall, InvalidScanCall}
    /\ bus.status = "ok"

\* C22: when silence_alarm runs together with a handler that raises the alarm,
\* then, however their statements interleave, once both have returned the
\* alarm flag is set exactly when the last message on the alarm topic is "ON".
C22_SilenceRaceAgreesWithBroker ==
    SilenceRacedAlarm => (ALARM_TRIGGERED <=> published[ALARM] = "ON")

====
